---- MODULE Spec2Model ----
(***************************************************************************)
(* Model of the content-addressed FileStore (src/store/file_store.rs) and  *)
(* of SourceFile (src/execution/source_file.rs).                           *)
(*                                                                         *)
(* State: the store directory on disk (the store_info metadata file and    *)
(* the backing files, by sharded path), the advisory lock on store_info,   *)
(* and per process the position inside FileStore::new and the in-memory    *)
(* metadata mirror (FileStore.data) of its instance; and one SourceFile    *)
(* with the ExecutionDAG it is executed on.                                *)
(***************************************************************************)
EXTENDS Integers, Sequences, FiniteSets, TLC

VARIABLES
    info,     \* <base>/store_info: [exists, content], content a token sequence
    files,    \* backing files: sharded path -> [content, created, modified, readonly]
    lock,     \* the process holding the exclusive lock on store_info, or NoProc
    pc,       \* per process: position in FileStore::new / "live" instance
    data,     \* per process: FileStore.data.items (hex key -> [persistent])
    now,      \* the clock, in whole seconds (Utc::now().timestamp())
    btime,    \* whether the filesystem reports a creation time (metadata.created())
    last,     \* the most recent step: operation, caller, arguments, returned value
    source,   \* the SourceFile: [made, need_compilation, executable]
    dag,      \* the ExecutionDAG: [handles, provided, executions]
    execs     \* the executions SourceFile::execute has returned, in order

srcvars == <<source, dag, execs>>
vars == <<info, files, lock, pc, data, now, btime, last, srcvars>>

-----------------------------------------------------------------------------
(* Bounds of the model *)

\* the clock runs from 0 to MaxTime
MaxTime == 1
\* processes that may call FileStore::new on the same base directory
NumProcs == 3
\* backing files in the tree when keys are drawn from KeySpace
MaxFiles == 2
\* calls of SourceFile::execute on the one SourceFile
MaxExecs == 3

(* Program constants *)

\* PERSISTENCY_DURATION, in seconds
PERSISTENCY_DURATION == 600
\* CHECK_INTEGRITY
CHECK_INTEGRITY == TRUE

Procs == 1..NumProcs
NoProc == 0

\* the time of a file whose filesystem reports no creation time
NoTime == -1

\* the contents callers store, and the byte sequences a file can hold
Originals == {<<1, 2>>, <<2>>}
Contents == {<<>>, <<1>>, <<2>>, <<1, 2>>}

-----------------------------------------------------------------------------
(* Hashing and hex encoding *)

HexDigits == <<"0", "1", "2", "3", "4", "5", "6", "7",
               "8", "9", "a", "b", "c", "d", "e", "f">>

\* hex::encode of one byte: two lowercase hex characters
HexByte(b) == <<HexDigits[(b \div 16) + 1], HexDigits[(b % 16) + 1]>>

\* hex::encode(bytes)
RECURSIVE HexEncode(_)
HexEncode(bytes) ==
    IF bytes = <<>> THEN <<>>
    ELSE HexByte(Head(bytes)) \o HexEncode(Tail(bytes))

\* hasher.input(buf): the digest state after feeding the bytes of buf in order
RECURSIVE HasherInput(_, _)
HasherInput(h, buf) ==
    IF buf = <<>> THEN h
    ELSE HasherInput((h * 131 + Head(buf) + 40) % 65536, Tail(buf))

\* hasher.result().to_vec(): the digest bytes (two bytes wide in the model)
HasherResult(h) == <<h \div 256, h % 256>>

\* the chunks of a content sequence, concatenated in order
RECURSIVE Concat(_)
Concat(chunks) ==
    IF chunks = <<>> THEN <<>>
    ELSE Head(chunks) \o Concat(Tail(chunks))

\* the digest of a byte sequence fed chunk by chunk
RECURSIVE HashChunks(_, _)
HashChunks(h, chunks) ==
    IF chunks = <<>> THEN HasherResult(h)
    ELSE HashChunks(HasherInput(h, Head(chunks)), Tail(chunks))

\* FileStoreKey::to_string
KeyToString(key) == HexEncode(key)

\* the ways to cut a byte sequence into non-empty chunks (Iterator<Item = Vec<u8>>)
RECURSIVE Chunkings(_)
Chunkings(bytes) ==
    IF bytes = <<>> THEN {<<>>}
    ELSE UNION {{<<SubSeq(bytes, 1, n)>> \o rest :
                    rest \in Chunkings(SubSeq(bytes, n + 1, Len(bytes)))} :
                n \in 1..Len(bytes)}

\* the keys callers use: FileStoreKey::from_file of the contents they store
Keys == {HasherResult(HasherInput(0, c)) : c \in Originals}

\* the content sequences a caller hands to store under key: they hash to key
ChunksOf(key) ==
    UNION {Chunkings(c) : c \in {o \in Originals : HasherResult(HasherInput(0, o)) = key}}

-----------------------------------------------------------------------------
(* The directory tree under base_path *)

\* key_to_path with the two directory levels exchanged
key_to_path_swapped(key) ==
    LET first  == HexEncode(<<key[1]>>)
        second == HexEncode(<<key[2]>>)
        full   == HexEncode(key)
    IN  <<second, first, full>>

\* FileStore::key_to_path, relative to base_path: <<first, second, full>>
key_to_path(key) ==
    LET first  == HexEncode(<<key[1]>>)
        second == HexEncode(<<key[2]>>)
        full   == HexEncode(key)
    IN  <<first, second, full>>

\* the path read_store_file derives from a key of the metadata file:
\* base_path.join(&key[0..2]).join(&key[2..4]).join(key)
StoreFilePath(hex) == <<SubSeq(hex, 1, 2), SubSeq(hex, 3, 4), hex>>

\* path.exists()
Exists(fs, path) == path \in DOMAIN fs

\* the tree with the file at path created or replaced
PutFile(fs, path, f) ==
    [q \in DOMAIN fs \cup {path} |-> IF q = path THEN f ELSE fs[q]]

\* the tree without the file at path
DelFile(fs, path) == [q \in DOMAIN fs \ {path} |-> fs[q]]

\* FileStoreKey::from_file: the key of the file's current bytes, or an error
\* (ReadFileIterator feeds the file's bytes to the hasher in order)
from_file(fs, path) ==
    IF Exists(fs, path)
    THEN [ok |-> TRUE, hash |-> HasherResult(HasherInput(0, fs[path].content))]
    ELSE [ok |-> FALSE, hash |-> <<>>]

\* check_integrity whose slow path accepts any file it can read
check_integrity_any_readable(fs, key) ==
    LET path == key_to_path(key)
        key2 == from_file(fs, path)
    IN  IF /\ Exists(fs, path)
           /\ fs[path].created # NoTime
           /\ fs[path].created = fs[path].modified
        THEN TRUE
        ELSE key2.ok

\* FileStore::check_integrity
check_integrity(fs, key) ==
    LET path == key_to_path(key)
        key2 == from_file(fs, path)
    IN  IF /\ Exists(fs, path)
           /\ fs[path].created # NoTime
           /\ fs[path].created = fs[path].modified
        THEN TRUE
        ELSE IF key2.ok THEN key2.hash = key ELSE FALSE

\* FileStore::mark_readonly
mark_readonly(fs, path) == [fs EXCEPT ![path].readonly = TRUE]

\* remove_file that clears the read-only bit and forgets to unlink
remove_file_no_unlink(fs, path) == [fs EXCEPT ![path].readonly = FALSE]

\* FileStore::remove_file: clear the read-only bit, then unlink
remove_file(fs, path) ==
    LET writable == [fs EXCEPT ![path].readonly = FALSE]
    IN  DelFile(writable, path)

-----------------------------------------------------------------------------
(* The metadata mirror and its serialization *)

\* FileStoreData::new
EmptyData == [k \in {} |-> [persistent |-> 0]]

\* persist that forgets to add the duration
ItemPersistNoDuration(item, t) == [item EXCEPT !.persistent = t]

\* FileStoreItem::persist: the entry with its lifetime set to now + 600 s
ItemPersist(item, t) == [item EXCEPT !.persistent = t + PERSISTENCY_DURATION]

\* get_mut(key).persist() that extends only the entry it has just created
GetMutPersistNewOnly(items, key, t) ==
    LET k == KeyToString(key)
    IN  [q \in DOMAIN items \cup {k} |->
            IF q \in DOMAIN items THEN items[q]
            ELSE ItemPersist([persistent |-> t], t)]

\* FileStoreData::get_mut(key).persist(): the entry is created if needed
\* (FileStoreItem::new sets persistent to now) and then extended
GetMutPersist(items, key, t) ==
    LET k    == KeyToString(key)
        item == IF k \in DOMAIN items THEN items[k] ELSE [persistent |-> t]
    IN  [q \in DOMAIN items \cup {k} |->
            IF q = k THEN ItemPersist(item, t) ELSE items[q]]

\* FileStoreData::remove
DataRemove(items, key) ==
    [q \in DOMAIN items \ {KeyToString(key)} |-> items[q]]

\* the tokens of the JSON document {"items":{"<hex>":{"persistent":<t>},...}}
TokOpen  == [t |-> "open",  k |-> <<>>, v |-> 0]
TokClose == [t |-> "close", k |-> <<>>, v |-> 0]
TokItem(k, item) == [t |-> "item", k |-> k, v |-> item.persistent]

\* the order in which the HashMap with these keys is iterated.  The order is
\* unspecified; nothing but the parser reads it back, and the parser does not
\* depend on it, so the model fixes one order per key set.
IterOrder(S) ==
    CHOOSE o \in [1..Cardinality(S) -> S] : \A i, j \in DOMAIN o : i # j => o[i] # o[j]

\* serde_json::to_string(&data) / serde_json::to_writer(file, &data)
Serialize(items) ==
    LET o == IterOrder(DOMAIN items)
    IN  <<TokOpen>> \o [i \in DOMAIN o |-> TokItem(o[i], items[o[i]])] \o <<TokClose>>

\* the items of a token sequence, a later duplicate replacing an earlier one
RECURSIVE ItemsOf(_)
ItemsOf(toks) ==
    IF toks = <<>> THEN EmptyData
    ELSE LET rest == ItemsOf(SubSeq(toks, 1, Len(toks) - 1))
             tk   == toks[Len(toks)]
         IN  [q \in DOMAIN rest \cup {tk.k} |->
                 IF q = tk.k THEN [persistent |-> tk.v] ELSE rest[q]]

\* serde_json::from_reader: one complete document and nothing after it
Parse(content) ==
    LET n == Len(content)
    IN  IF /\ n >= 2
           /\ content[1] = TokOpen
           /\ content[n] = TokClose
           /\ \A i \in 2..(n - 1) : content[i].t = "item"
        THEN [ok |-> TRUE, items |-> ItemsOf(SubSeq(content, 2, n - 1))]
        ELSE [ok |-> FALSE, items |-> EmptyData]

\* write_all at offset pos: overwrite in place, extending the file if needed
WriteAt(content, pos, bytes) ==
    LET n == IF pos + Len(bytes) > Len(content) THEN pos + Len(bytes) ELSE Len(content)
    IN  [i \in 1..n |->
            IF i > pos /\ i <= pos + Len(bytes) THEN bytes[i - pos] ELSE content[i]]

\* set_len(n) with n at most the current length
SetLen(content, n) == SubSeq(content, 1, n)

\* FileStore::flush: seek to 0, write the serialization, truncate to its length
flush(f, serialized) ==
    LET written == WriteAt(f.content, 0, serialized)
    IN  [f EXCEPT !.content = SetLen(written, Len(serialized))]

\* read_store_file that keeps every parsed entry
read_store_file_no_filter(f, fs) ==
    LET parsed == Parse(f.content)
    IN  [ok |-> parsed.ok, items |-> parsed.items]

\* FileStore::read_store_file: parse, then drop entries whose file is gone
read_store_file(f, fs) ==
    LET parsed == Parse(f.content)
        kept   == {k \in DOMAIN parsed.items : Exists(fs, StoreFilePath(k))}
    IN  [ok |-> parsed.ok, items |-> [k \in kept |-> parsed.items[k]]]

-----------------------------------------------------------------------------
(* The record of the most recent step *)

NoKey == <<>>
\* op, caller and arguments, the returned value, and the line the step logs
\* (consumed: how many chunks of the content iterator a store has taken)
Step(op, p, key, chunks, ret, log) ==
    [op |-> op, pid |-> p, key |-> key, chunks |-> chunks, ret |-> ret, log |-> log,
     consumed |-> 0]

\* the lines the store logs: warn!("Store locked... waiting"),
\* trace!("File {:?} already exists"), warn!("File {:?} failed the integrity check")
LogNone == "-"
LogWaiting == "Store locked... waiting"
LogExists == "already exists"
LogCorrupted == "failed the integrity check"

\* a freshly created, empty backing file (std::fs::File::create) at time t
NewFile(t, hasBtime) ==
    [content |-> <<>>, created |-> IF hasBtime THEN t ELSE NoTime,
     modified |-> t, readonly |-> FALSE]

\* the chunks whose write_all succeeded, in order
RECURSIVE Written(_, _)
Written(chunks, mask) ==
    IF chunks = <<>> THEN <<>>
    ELSE (IF Head(mask) THEN Head(chunks) ELSE <<>>) \o Written(Tail(chunks), Tail(mask))

\* Option<File>::None
NoFile == 0

\* no SourceFile has been made yet
NoSource == [made |-> FALSE, need_compilation |-> FALSE, executable |-> NoFile]

\* ExecutionDAG::new(): handles counts the File handles made so far (each
\* File::new and each Execution::output makes a handle of its own), provided
\* lists the handles given to provide_file, executions those given to
\* add_execution
EmptyDag == [handles |-> 0, provided |-> <<>>, executions |-> <<>>]

\* the argument vectors callers pass to execute
ArgsSet == {<<>>, <<"a">>, <<"b">>}

\* an Execution: its identity (Execution::new gives each one its own), what
\* it runs, its arguments, its input and output handles
Execution(uuid, kind, args, input, output) ==
    [uuid |-> uuid, kind |-> kind, args |-> args, input |-> input, output |-> output]

Init ==
    /\ info = [exists |-> FALSE, content |-> <<>>]
    /\ files = [q \in {} |-> NewFile(0, TRUE)]
    /\ lock = NoProc
    /\ pc = [p \in Procs |-> "idle"]
    /\ data = [p \in Procs |-> EmptyData]
    /\ now = 0
    /\ btime \in BOOLEAN
    /\ last = Step("init", NoProc, NoKey, <<>>, "-", LogNone)
    /\ source = NoSource
    /\ dag = EmptyDag
    /\ execs = <<>>

-----------------------------------------------------------------------------
(* FileStore::new, one step per system call that other processes can see *)

\* create_dir_all(base_path); path.exists()
NewCheck(p) ==
    /\ pc[p] = "idle"
    /\ pc' = [pc EXCEPT ![p] = IF info.exists THEN "open" ELSE "create"]
    /\ last' = Step("step", p, NoKey, <<>>, "-", LogNone)
    /\ UNCHANGED <<info, files, lock, data, now, btime, srcvars>>

\* File::create(&path): creates the file, or truncates the one that is there
NewCreate(p) ==
    /\ pc[p] = "create"
    /\ info' = [exists |-> TRUE, content |-> <<>>]
    /\ pc' = [pc EXCEPT ![p] = "write"]
    /\ last' = Step("step", p, NoKey, <<>>, "-", LogNone)
    /\ UNCHANGED <<files, lock, data, now, btime, srcvars>>

\* serde_json::to_writer(file, &FileStoreData::new()), from offset 0
NewWrite(p) ==
    /\ pc[p] = "write"
    /\ info' = [info EXCEPT !.content = WriteAt(info.content, 0, Serialize(EmptyData))]
    /\ pc' = [pc EXCEPT ![p] = "open"]
    /\ last' = Step("step", p, NoKey, <<>>, "-", LogNone)
    /\ UNCHANGED <<files, lock, data, now, btime, srcvars>>

\* try_lock_exclusive that takes the lock whoever holds it
NewTryLockUnchecked(p) ==
    /\ pc[p] = "open"
    /\ info.exists
    /\ lock' = p
    /\ pc' = [pc EXCEPT ![p] = "read"]
    /\ last' = Step("step", p, NoKey, <<>>, "-", LogNone)
    /\ UNCHANGED <<info, files, data, now, btime, srcvars>>

\* OpenOptions::open and file.try_lock_exclusive(): the lock is taken if it
\* is free; on contention the call warns and goes on to lock_exclusive()
NewTryLock(p) ==
    /\ pc[p] = "open"
    /\ info.exists
    /\ IF lock = NoProc
       THEN /\ lock' = p
            /\ pc' = [pc EXCEPT ![p] = "read"]
            /\ last' = Step("step", p, NoKey, <<>>, "-", LogNone)
       ELSE /\ lock' = lock
            /\ pc' = [pc EXCEPT ![p] = "wait"]
            /\ last' = Step("step", p, NoKey, <<>>, "-", LogWaiting)
    /\ UNCHANGED <<info, files, data, now, btime, srcvars>>

\* file.lock_exclusive(): blocks until the lock is free
NewLockWait(p) ==
    /\ pc[p] = "wait"
    /\ lock = NoProc
    /\ lock' = p
    /\ pc' = [pc EXCEPT ![p] = "read"]
    /\ last' = Step("lock_exclusive", p, NoKey, <<>>, "Ok", LogNone)
    /\ UNCHANGED <<info, files, data, now, btime, srcvars>>

\* FileStore::read_store_file and the return of FileStore::new; on a parse
\* error the file handle is dropped, which releases the lock
NewRead(p) ==
    /\ pc[p] = "read"
    /\ LET r == read_store_file(info, files)
       IN  IF r.ok
           THEN /\ data' = [data EXCEPT ![p] = r.items]
                /\ pc' = [pc EXCEPT ![p] = "live"]
                /\ lock' = lock
                /\ last' = Step("new", p, NoKey, <<>>, "Ok", LogNone)
           ELSE /\ data' = data
                /\ pc' = [pc EXCEPT ![p] = "idle"]
                /\ lock' = NoProc
                /\ last' = Step("new", p, NoKey, <<>>, "Err", LogNone)
    /\ UNCHANGED <<info, files, now, btime, srcvars>>

\* the instance is dropped: closing the file releases the lock
Drop(p) ==
    /\ pc[p] = "live"
    /\ pc' = [pc EXCEPT ![p] = "idle"]
    /\ data' = [data EXCEPT ![p] = EmptyData]
    /\ lock' = NoProc
    /\ last' = Step("drop", p, NoKey, <<>>, "-", LogNone)
    /\ UNCHANGED <<info, files, now, btime, srcvars>>

-----------------------------------------------------------------------------
(* The operations of a live instance *)

\* FileStore::has_key: the returned value, the tree and the mirror afterwards
has_key(fs, items, key) ==
    LET path == key_to_path(key)
    IN  IF ~Exists(fs, path)
        THEN [ret |-> FALSE, fs |-> fs, items |-> items, log |-> LogNone]
        ELSE IF CHECK_INTEGRITY /\ ~check_integrity(fs, key)
        THEN [ret |-> FALSE, fs |-> remove_file(fs, path),
              items |-> DataRemove(items, key), log |-> LogCorrupted]
        ELSE [ret |-> TRUE, fs |-> fs, items |-> items, log |-> LogNone]

HasKey(p, key) ==
    /\ pc[p] = "live"
    /\ LET r == has_key(files, data[p], key)
       IN  /\ files' = r.fs
           /\ data' = [data EXCEPT ![p] = r.items]
           /\ last' = Step("has_key", p, key, <<>>, IF r.ret THEN "True" ELSE "False", r.log)
    /\ UNCHANGED <<info, lock, pc, now, btime, srcvars>>

\* persist that does not look for the backing file
persist_unchecked(fs, items, key, t) ==
    [ret |-> "Ok", items |-> GetMutPersist(items, key, t), flushed |-> TRUE]

\* FileStore::persist: [ret, items, flushed]
persist(fs, items, key, t) ==
    LET path == key_to_path(key)
    IN  IF ~Exists(fs, path)
        THEN [ret |-> "NotFound", items |-> items, flushed |-> FALSE]
        ELSE [ret |-> "Ok", items |-> GetMutPersist(items, key, t), flushed |-> TRUE]

Persist(p, key) ==
    /\ pc[p] = "live"
    /\ LET r == persist(files, data[p], key, now)
       IN  /\ data' = [data EXCEPT ![p] = r.items]
           /\ IF r.flushed
              THEN info' = flush(info, Serialize(r.items))
              ELSE info' = info
           /\ last' = Step("persist", p, key, <<>>, r.ret, LogNone)
    /\ UNCHANGED <<files, lock, pc, now, btime, srcvars>>

\* FileStore::get: [ret, fs, items, flushed]
get(fs, items, key, t) ==
    LET path == key_to_path(key)
    IN  IF ~Exists(fs, path)
        THEN [ret |-> "None", fs |-> fs, items |-> DataRemove(items, key),
              flushed |-> TRUE, log |-> LogNone]
        ELSE IF CHECK_INTEGRITY /\ ~check_integrity(fs, key)
        THEN [ret |-> "None", fs |-> remove_file(fs, path),
              items |-> DataRemove(items, key), flushed |-> FALSE,
              log |-> LogCorrupted]
        ELSE LET r == persist(fs, items, key, t)
             IN  [ret |-> "Some", fs |-> fs, items |-> r.items,
                  flushed |-> r.flushed, log |-> LogNone]

Get(p, key) ==
    /\ pc[p] = "live"
    /\ LET r == get(files, data[p], key, now)
       IN  /\ files' = r.fs
           /\ data' = [data EXCEPT ![p] = r.items]
           /\ IF r.flushed
              THEN info' = flush(info, Serialize(r.items))
              ELSE info' = info
           /\ last' = Step("get", p, key, <<>>, r.ret, r.log)
    /\ UNCHANGED <<lock, pc, now, btime, srcvars>>

\* the new-file branch of FileStore::store: File::create, the write_all of
\* every chunk (its result is discarded: a chunk whose write fails is
\* missing from the file), mark_readonly.  t2 is the time when the writes end.
store_write(fs, hasBtime, path, chunks, mask, t, t2) ==
    LET bytes   == Written(chunks, mask)
        created == NewFile(t, hasBtime)
        written == IF bytes = <<>> THEN created
                   ELSE [created EXCEPT !.content = bytes, !.modified = t2]
    IN  mark_readonly(PutFile(fs, path, written), path)

\* the same branch when mark_readonly fails: the file stays writable
store_write_only(fs, hasBtime, path, chunks, mask, t, t2) ==
    LET bytes   == Written(chunks, mask)
        created == NewFile(t, hasBtime)
        written == IF bytes = <<>> THEN created
                   ELSE [created EXCEPT !.content = bytes, !.modified = t2]
    IN  PutFile(fs, path, written)

\* the filesystem steps of store on the backing file that may fail with an
\* error that `?` returns: create_dir_all / File::create, and mark_readonly
StoreFailures == {"none", "create", "readonly"}

\* store that writes the file again although it is already there
store_rewrites(fs, items, hasBtime, key, chunks, mask, t, t2, fail) ==
    LET path == key_to_path(key)
        hk   == has_key(fs, items, key)
    IN  [ret |-> "Ok", fs |-> store_write(hk.fs, hasBtime, path, chunks, mask, t, t2),
         items |-> GetMutPersist(hk.items, key, t2),
         log |-> IF hk.ret THEN LogExists ELSE hk.log,
         flushed |-> TRUE, consumed |-> Len(chunks)]

\* store that leaves the content iterator untouched when the file is there
store_no_drain(fs, items, hasBtime, key, chunks, mask, t, t2, fail) ==
    LET path == key_to_path(key)
        hk   == has_key(fs, items, key)
    IN  IF hk.ret
        THEN [ret |-> "Ok", fs |-> hk.fs, items |-> GetMutPersist(hk.items, key, t),
              log |-> LogExists, flushed |-> TRUE, consumed |-> 0]
        ELSE IF fail = "create"
        THEN [ret |-> "Err", fs |-> hk.fs, items |-> hk.items,
              log |-> hk.log, flushed |-> FALSE, consumed |-> 0]
        ELSE IF fail = "readonly"
        THEN [ret |-> "Err",
              fs |-> store_write_only(hk.fs, hasBtime, path, chunks, mask, t, t2),
              items |-> hk.items,
              log |-> hk.log, flushed |-> FALSE, consumed |-> Len(chunks)]
        ELSE [ret |-> "Ok", fs |-> store_write(hk.fs, hasBtime, path, chunks, mask, t, t2),
              items |-> GetMutPersist(hk.items, key, t2), log |-> hk.log,
              flushed |-> TRUE, consumed |-> Len(chunks)]

\* FileStore::store: [ret, fs, items, log, flushed, consumed]; fail names the
\* step on the backing file that fails, if any
store(fs, items, hasBtime, key, chunks, mask, t, t2, fail) ==
    LET path == key_to_path(key)
        hk   == has_key(fs, items, key)
    IN  IF hk.ret
        THEN [ret |-> "Ok", fs |-> hk.fs, items |-> GetMutPersist(hk.items, key, t),
              log |-> LogExists, flushed |-> TRUE, consumed |-> Len(chunks)]
        ELSE IF fail = "create"
        THEN [ret |-> "Err", fs |-> hk.fs, items |-> hk.items,
              log |-> hk.log, flushed |-> FALSE, consumed |-> 0]
        ELSE IF fail = "readonly"
        THEN [ret |-> "Err",
              fs |-> store_write_only(hk.fs, hasBtime, path, chunks, mask, t, t2),
              items |-> hk.items,
              log |-> hk.log, flushed |-> FALSE, consumed |-> Len(chunks)]
        ELSE [ret |-> "Ok", fs |-> store_write(hk.fs, hasBtime, path, chunks, mask, t, t2),
              items |-> GetMutPersist(hk.items, key, t2), log |-> hk.log,
              flushed |-> TRUE, consumed |-> Len(chunks)]

\* store(key, content): mask tells which write_all calls succeed, d how long
\* the writes take, fail which other step on the backing file fails
Store(p, key, chunks, mask, d, fail) ==
    /\ pc[p] = "live"
    /\ now + d <= MaxTime
    /\ LET hk == has_key(files, data[p], key)
           r  == store(files, data[p], btime, key, chunks, mask, now, now + d, fail)
           nowrite == hk.ret \/ fail = "create"
       IN  /\ hk.ret => fail = "none"
           /\ nowrite => d = 0 /\ (\A i \in DOMAIN mask : mask[i])
           /\ files' = r.fs
           /\ data' = [data EXCEPT ![p] = r.items]
           /\ info' = IF r.flushed THEN flush(info, Serialize(r.items)) ELSE info
           /\ now' = IF nowrite THEN now ELSE now + d
           /\ last' = [Step("store", p, key, chunks, r.ret, r.log)
                          EXCEPT !.consumed = r.consumed]
    /\ UNCHANGED <<lock, pc, btime, srcvars>>

\* FileStore::flush called by the owner of the instance
Flush(p) ==
    /\ pc[p] = "live"
    /\ info' = flush(info, Serialize(data[p]))
    /\ last' = Step("flush", p, NoKey, <<>>, "Ok", LogNone)
    /\ UNCHANGED <<files, lock, pc, data, now, btime, srcvars>>

-----------------------------------------------------------------------------
(* The environment *)

\* a second passes
Tick ==
    /\ now < MaxTime
    /\ now' = now + 1
    /\ last' = Step("env", NoProc, NoKey, <<>>, "-", LogNone)
    /\ UNCHANGED <<info, files, lock, pc, data, btime, srcvars>>

\* a backing file is deleted out of band
ExtDelete(key) ==
    /\ Exists(files, key_to_path(key))
    /\ files' = DelFile(files, key_to_path(key))
    /\ last' = Step("env", NoProc, NoKey, <<>>, "-", LogNone)
    /\ UNCHANGED <<info, lock, pc, data, now, btime, srcvars>>

\* the bytes of a backing file are overwritten out of band (by a writer the
\* permission bits do not stop); the modification time becomes the current time
ExtWrite(key, bytes) ==
    /\ Exists(files, key_to_path(key))
    /\ files' = [files EXCEPT ![key_to_path(key)].content = bytes,
                              ![key_to_path(key)].modified = now]
    /\ last' = Step("env", NoProc, NoKey, <<>>, "-", LogNone)
    /\ UNCHANGED <<info, lock, pc, data, now, btime, srcvars>>

-----------------------------------------------------------------------------
(* Specifications *)

New(p) ==
    \/ NewCheck(p)
    \/ NewCreate(p)
    \/ NewWrite(p)
    \/ NewTryLock(p)
    \/ NewLockWait(p)
    \/ NewRead(p)

Operation(p) ==
    \/ \E key \in Keys : HasKey(p, key)
    \/ \E key \in Keys : Persist(p, key)
    \/ \E key \in Keys : Get(p, key)
    \/ \E key \in Keys : \E chunks \in ChunksOf(key) :
          \E mask \in [DOMAIN chunks -> BOOLEAN], d \in {0, 1} :
             Store(p, key, chunks, mask, d, "none")
    \/ Flush(p)

Environment ==
    \/ Tick
    \/ \E key \in Keys : ExtDelete(key)
    \/ \E key \in Keys, bytes \in Contents : ExtWrite(key, bytes)

\* one process opens the store, uses it and drops it, again and again, while
\* time passes and backing files are deleted or overwritten out of band
Next ==
    \/ NewCheck(1)
    \/ NewCreate(1)
    \/ NewWrite(1)
    \/ NewTryLock(1)
    \/ NewRead(1)
    \/ Operation(1)
    \/ Drop(1)
    \/ Environment

Spec == Init /\ [][Next]_vars

\* every write_all succeeds
AllWritten(chunks) == [i \in DOMAIN chunks |-> TRUE]

\* several processes open the same base directory; the one that holds an
\* instance stores files and flushes
NextProcs ==
    \/ \E p \in Procs : New(p)
    \/ \E p \in Procs : Drop(p)
    \/ \E p \in Procs, key \in Keys : \E chunks \in ChunksOf(key) :
          Store(p, key, chunks, AllWritten(chunks), 0, "none")
    \/ \E p \in Procs, key \in Keys : ExtDelete(key) /\ pc[p] = "idle"

SpecProcs == Init /\ [][NextProcs]_vars

\* FileStore::flush interrupted: the first n tokens of the serialization are
\* written over the old content from offset 0, and set_len has not run
flush_crash(f, serialized, n) ==
    [f EXCEPT !.content = WriteAt(f.content, 0, SubSeq(serialized, 1, n))]

\* the process of the instance dies: the kernel closes the file handle,
\* which releases the lock, and the mirror is gone
Exit(p) ==
    /\ pc' = [pc EXCEPT ![p] = "idle"]
    /\ data' = [data EXCEPT ![p] = EmptyData]
    /\ lock' = NoProc

\* the process dies inside flush() called by the owner
CrashFlush(p) ==
    /\ pc[p] = "live"
    /\ \E n \in 0..Len(Serialize(data[p])) :
          info' = flush_crash(info, Serialize(data[p]), n)
    /\ Exit(p)
    /\ last' = Step("crash", p, NoKey, <<>>, "-", LogNone)
    /\ UNCHANGED <<files, now, btime, srcvars>>

\* the process dies inside the new-file branch of store, after File::create
\* and the writes of mask, before mark_readonly
CrashStoreWrite(p, key, chunks, mask) ==
    /\ pc[p] = "live"
    /\ LET hk == has_key(files, data[p], key)
       IN  /\ ~hk.ret
           /\ files' = store_write_only(hk.fs, btime, key_to_path(key), chunks, mask,
                                        now, now)
    /\ Exit(p)
    /\ last' = Step("crash", p, key, chunks, "-", LogNone)
    /\ UNCHANGED <<info, now, btime, srcvars>>

\* the process dies inside the flush that ends store
CrashStore(p, key, chunks) ==
    /\ pc[p] = "live"
    /\ LET r == store(files, data[p], btime, key, chunks, AllWritten(chunks),
                      now, now, "none")
       IN  /\ files' = r.fs
           /\ \E n \in 0..Len(Serialize(r.items)) :
                 info' = flush_crash(info, Serialize(r.items), n)
    /\ Exit(p)
    /\ last' = Step("crash", p, key, chunks, "-", LogNone)
    /\ UNCHANGED <<now, btime, srcvars>>

\* the process dies inside the flush of get (file absent, or file intact)
CrashGet(p, key) ==
    /\ pc[p] = "live"
    /\ LET r == get(files, data[p], key, now)
       IN  /\ r.flushed
           /\ files' = r.fs
           /\ \E n \in 0..Len(Serialize(r.items)) :
                 info' = flush_crash(info, Serialize(r.items), n)
    /\ Exit(p)
    /\ last' = Step("crash", p, key, <<>>, "-", LogNone)
    /\ UNCHANGED <<now, btime, srcvars>>

\* the process dies inside the flush that ends persist
CrashPersist(p, key) ==
    /\ pc[p] = "live"
    /\ LET r == persist(files, data[p], key, now)
       IN  /\ r.flushed
           /\ \E n \in 0..Len(Serialize(r.items)) :
                 info' = flush_crash(info, Serialize(r.items), n)
    /\ Exit(p)
    /\ last' = Step("crash", p, key, <<>>, "-", LogNone)
    /\ UNCHANGED <<files, now, btime, srcvars>>

\* the process dies inside has_key while it evicts a corrupted file: in
\* remove_file, after set_permissions and before the unlink
CrashHasKey(p, key) ==
    /\ pc[p] = "live"
    /\ Exists(files, key_to_path(key))
    /\ CHECK_INTEGRITY /\ ~check_integrity(files, key)
    /\ files' = [files EXCEPT ![key_to_path(key)].readonly = FALSE]
    /\ Exit(p)
    /\ last' = Step("crash", p, key, <<>>, "-", LogCorrupted)
    /\ UNCHANGED <<info, now, btime, srcvars>>

\* one process opens the store and uses it, and may die inside an operation;
\* the store is then opened again
NextCrash ==
    \/ NewCheck(1)
    \/ NewCreate(1)
    \/ NewWrite(1)
    \/ NewTryLock(1)
    \/ NewRead(1)
    \/ \E key \in Keys : \E chunks \in ChunksOf(key) :
          Store(1, key, chunks, AllWritten(chunks), 0, "none")
    \/ \E key \in Keys : HasKey(1, key)
    \/ \E key \in Keys : Persist(1, key)
    \/ \E key \in Keys : Get(1, key)
    \/ Flush(1)
    \/ Drop(1)
    \/ CrashFlush(1)
    \/ \E key \in Keys : \E chunks \in ChunksOf(key) :
          \E mask \in [DOMAIN chunks -> BOOLEAN] : CrashStoreWrite(1, key, chunks, mask)
    \/ \E key \in Keys : \E chunks \in ChunksOf(key) : CrashStore(1, key, chunks)
    \/ \E key \in Keys : CrashGet(1, key)
    \/ \E key \in Keys : CrashPersist(1, key)
    \/ \E key \in Keys : CrashHasKey(1, key)

SpecCrash == Init /\ [][NextCrash]_vars

-----------------------------------------------------------------------------
(* SourceFile *)

\* SourceFile::new: the language is known; it needs a compilation or not
SourceNew(need) ==
    /\ ~source.made
    /\ source' = [made |-> TRUE, need_compilation |-> need, executable |-> NoFile]
    /\ last' = Step("source_new", NoProc, NoKey, <<>>, "Some", LogNone)
    /\ UNCHANGED <<info, files, lock, pc, data, now, btime, dag, execs>>

\* prepare that does not return early when the executable is already set
prepare_always(s, g) ==
    IF s.need_compilation
    THEN LET src  == g.handles + 1
             exec == g.handles + 2
             comp == Execution(0, "compilation", <<>>, src, exec)
         IN  [source |-> [s EXCEPT !.executable = exec],
              dag |-> [handles |-> g.handles + 2,
                       provided |-> Append(g.provided, src),
                       executions |-> Append(g.executions, comp)]]
    ELSE LET executable == g.handles + 1
         IN  [source |-> [s EXCEPT !.executable = executable],
              dag |-> [handles |-> g.handles + 1,
                       provided |-> Append(g.provided, executable),
                       executions |-> g.executions]]

\* SourceFile::prepare: [source, dag] afterwards
prepare(s, g) ==
    IF s.executable # NoFile
    THEN [source |-> s, dag |-> g]
    ELSE IF s.need_compilation
    THEN LET src  == g.handles + 1
             exec == g.handles + 2
             comp == Execution(0, "compilation", <<>>, src, exec)
         IN  [source |-> [s EXCEPT !.executable = exec],
              dag |-> [handles |-> g.handles + 2,
                       provided |-> Append(g.provided, src),
                       executions |-> Append(g.executions, comp)]]
    ELSE LET executable == g.handles + 1
         IN  [source |-> [s EXCEPT !.executable = executable],
              dag |-> [handles |-> g.handles + 1,
                       provided |-> Append(g.provided, executable),
                       executions |-> g.executions]]

\* SourceFile::execute: prepare, then build and return the execution
Execute(args) ==
    /\ source.made
    /\ Len(execs) < MaxExecs
    /\ LET r    == prepare(source, dag)
           exec == Execution(Len(execs) + 1, "run", args, r.source.executable, NoFile)
       IN  /\ source' = r.source
           /\ dag' = r.dag
           /\ execs' = Append(execs, exec)
    /\ last' = Step("execute", NoProc, NoKey, <<>>, "-", LogNone)
    /\ UNCHANGED <<info, files, lock, pc, data, now, btime>>

\* the caller adds an execution that execute returned to the DAG
\* (dag.add_execution(exec), as test_source_file_cpp does)
AddExecution(i) ==
    /\ i \in DOMAIN execs
    /\ \A j \in DOMAIN dag.executions : dag.executions[j] # execs[i]
    /\ dag' = [dag EXCEPT !.executions = Append(@, execs[i])]
    /\ last' = Step("add_execution", NoProc, NoKey, <<>>, "-", LogNone)
    /\ UNCHANGED <<info, files, lock, pc, data, now, btime, source, execs>>

\* one SourceFile is made and executed up to MaxExecs times on one DAG
NextSource ==
    \/ \E need \in BOOLEAN : SourceNew(need)
    \/ \E args \in ArgsSet : Execute(args)
    \/ \E i \in 1..MaxExecs : AddExecution(i)

SpecSource == Init /\ [][NextSource]_vars

\* hashes of three bytes over two byte values: keys that share one or both
\* directory levels, and keys that share none
PathBytes == {10, 171}
KeySpace == {<<a, b, c>> : a \in PathBytes, b \in PathBytes, c \in PathBytes}

\* one process stores files under the keys of KeySpace (at most MaxFiles of
\* them), drops the instance and opens the store again
NextPaths ==
    \/ NewCheck(1)
    \/ NewCreate(1)
    \/ NewWrite(1)
    \/ NewTryLock(1)
    \/ NewRead(1)
    \/ \E key \in KeySpace :
          /\ Cardinality(DOMAIN files \cup {key_to_path(key)}) <= MaxFiles
          /\ Store(1, key, <<<<1>>>>, <<TRUE>>, 0, "none")
    \/ Drop(1)

SpecPaths == Init /\ [][NextPaths]_vars

\* one process opens the store and uses it while the steps of store on the
\* backing file may fail: create_dir_all / File::create, or mark_readonly
NextFail ==
    \/ NewCheck(1)
    \/ NewCreate(1)
    \/ NewWrite(1)
    \/ NewTryLock(1)
    \/ NewRead(1)
    \/ \E key \in Keys : \E chunks \in ChunksOf(key), fail \in StoreFailures :
          Store(1, key, chunks, AllWritten(chunks), 0, fail)
    \/ \E key \in Keys : HasKey(1, key)
    \/ \E key \in Keys : Persist(1, key)
    \/ \E key \in Keys : Get(1, key)
    \/ Drop(1)
    \/ Tick
    \/ \E key \in Keys : ExtDelete(key)

SpecFail == Init /\ [][NextFail]_vars

-----------------------------------------------------------------------------
(* Vocabulary of the properties *)

\* the sharded location of a key, from its canonical hex form: the first hex
\* byte, the second hex byte, the full hex string
ShardedPath(key) ==
    LET hex == KeyToString(key)
    IN  <<<<hex[1], hex[2]>>, <<hex[3], hex[4]>>, hex>>

\* the ContentKey of a byte sequence
DigestOf(bytes) == HasherResult(HasherInput(0, bytes))

\* the creation time is known and equals the modification time
TimesEqual(f) == f.created # NoTime /\ f.created = f.modified

\* the backing file of key exists and passes the integrity check
Intact(fs, key) ==
    /\ ShardedPath(key) \in DOMAIN fs
    /\ \/ TimesEqual(fs[ShardedPath(key)])
       \/ DigestOf(fs[ShardedPath(key)].content) = key

\* the backing file of key exists and fails the integrity check
Corrupted(fs, key) ==
    /\ ShardedPath(key) \in DOMAIN fs
    /\ ~TimesEqual(fs[ShardedPath(key)])
    /\ DigestOf(fs[ShardedPath(key)].content) # key

\* the mirror holds an entry for key
HasEntry(items, key) == KeyToString(key) \in DOMAIN items

\* the entries of the mirror other than key's are the same in both mirrors
SameOthers(items1, items2, key) ==
    /\ DOMAIN items1 \ {KeyToString(key)} = DOMAIN items2 \ {KeyToString(key)}
    /\ \A k \in DOMAIN items1 \ {KeyToString(key)} : items1[k] = items2[k]

\* the instance operations that take a key
KeyOps == {"store", "get", "has_key", "persist"}

-----------------------------------------------------------------------------
(* Properties *)

\* C1: at every moment at most one live FileStore instance exists over the
\* base directory: a process that holds an instance holds the lock, and no
\* other process holds an instance or has got past the lock.
C1_MutualExclusion ==
    \A p \in Procs :
        pc[p] = "live" =>
            /\ lock = p
            /\ \A q \in Procs \ {p} : pc[q] \notin {"read", "live"}

\* C1 witness: one process holds an instance while another, which found the
\* lock held, waits in lock_exclusive
C1_Witness ==
    \E p, q \in Procs :
        /\ pc[p] = "live"
        /\ pc[q] = "wait"
        /\ DOMAIN data[p] # {}

\* C2 (as claimed): when store(key, chunks) has returned Ok with chunks that
\* hash to key, the get(key) that follows at once returns the sharded path of
\* key, and the file there holds the concatenation of the chunks in order.
C2_StoreThenGet ==
    [][(/\ last.op = "store" /\ last.ret = "Ok"
        /\ HashChunks(0, last.chunks) = last.key
        /\ last'.op = "get" /\ last'.pid = last.pid /\ last'.key = last.key)
       => (/\ last'.ret = "Some"
           /\ ShardedPath(last.key) \in DOMAIN files'
           /\ files'[ShardedPath(last.key)].content = Concat(last.chunks))]_vars

\* C3 (as claimed): once new has returned, or get, has_key, persist or store
\* has found the backing file of key absent, the mirror holds no entry for a
\* key whose backing file is absent.
C3_NoEntryWithoutFile ==
    \A p \in Procs :
        (pc[p] = "live" /\ last.pid = p) =>
            /\ (last.op \in KeyOps /\ ShardedPath(last.key) \notin DOMAIN files)
                   => ~HasEntry(data[p], last.key)
            /\ last.op = "new"
                   => \A key \in Keys :
                          HasEntry(data[p], key) => ShardedPath(key) \in DOMAIN files

\* C4 (as claimed): when store, get, has_key or persist returns after
\* changing the mirror, store_info holds exactly the serialization of the
\* mirror.
C4_WriteThrough ==
    [][(last'.op \in KeyOps /\ data'[last'.pid] # data[last'.pid])
       => info'.content = Serialize(data'[last'.pid])]_vars

\* C5: get(key) on a backing file that exists and fails the integrity check
\* returns Ok(None); afterwards the file is gone and so is the mirror's entry.
C5_CorruptionSelfHealing ==
    [][\A key \in Keys :
        (last'.op = "get" /\ last'.key = key /\ Corrupted(files, key))
        => (/\ last'.ret = "None"
            /\ ShardedPath(key) \notin DOMAIN files'
            /\ ~HasEntry(data'[last'.pid], key))]_vars

\* C5 witness: get has just evicted a corrupted file whose entry the metadata
\* file still lists
C5_Witness ==
    /\ last.op = "get" /\ last.ret = "None" /\ last.log = LogCorrupted
    /\ ShardedPath(last.key) \notin DOMAIN files
    /\ ~HasEntry(data[last.pid], last.key)
    /\ HasEntry(Parse(info.content).items, last.key)

\* C6: when get returns a path or has_key returns true for a backing file
\* whose creation and modification times differ or are not both known, the
\* file's content hashes to the key.
C6_NoCorruptedServed ==
    ((last.op = "get" /\ last.ret = "Some") \/ (last.op = "has_key" /\ last.ret = "True"))
    => /\ ShardedPath(last.key) \in DOMAIN files
       /\ ~TimesEqual(files[ShardedPath(last.key)])
              => DigestOf(files[ShardedPath(last.key)].content) = last.key

\* C6 witness: get has returned the path of a file modified after its creation
C6_Witness ==
    /\ last.op = "get" /\ last.ret = "Some"
    /\ ShardedPath(last.key) \in DOMAIN files
    /\ files[ShardedPath(last.key)].created # NoTime
    /\ files[ShardedPath(last.key)].created # files[ShardedPath(last.key)].modified

\* C7: store(key, chunks) on a backing file that exists and is intact returns
\* Ok and leaves every backing file as it was (content, times, permissions);
\* it changes only the entry of key, and store_info then holds the mirror.
C7_IdempotentStore ==
    [][\A key \in Keys :
        (last'.op = "store" /\ last'.key = key /\ Intact(files, key))
        => (/\ last'.ret = "Ok"
            /\ files' = files
            /\ HasEntry(data'[last'.pid], key)
            /\ SameOthers(data[last'.pid], data'[last'.pid], key)
            /\ info'.content = Serialize(data'[last'.pid])
            /\ UNCHANGED <<lock, pc, now, btime>>)]_vars

\* C7 witness: store has found the file already there, written at an earlier
\* time, and has extended the entry
C7_Witness ==
    /\ last.op = "store" /\ last.ret = "Ok" /\ last.log = LogExists
    /\ ShardedPath(last.key) \in DOMAIN files
    /\ files[ShardedPath(last.key)].modified < now
    /\ data[last.pid][KeyToString(last.key)].persistent = now + PERSISTENCY_DURATION

\* C8: the mirror FileStore::new returns holds exactly the entries of the
\* parsed store_info whose backing file exists at the sharded path.
C8_StartupReconciliation ==
    (last.op = "new" /\ last.ret = "Ok") =>
        LET parsed == Parse(info.content)
            mirror == data[last.pid]
        IN  /\ parsed.ok
            /\ DOMAIN mirror \subseteq DOMAIN parsed.items
            /\ \A k \in DOMAIN mirror : mirror[k] = parsed.items[k]
            /\ \A key \in Keys :
                  HasEntry(mirror, key) <=>
                      (HasEntry(parsed.items, key) /\ ShardedPath(key) \in DOMAIN files)

\* C8 witness: new has returned a mirror without an entry that store_info
\* lists, while another listed entry is kept
C8_Witness ==
    /\ last.op = "new" /\ last.ret = "Ok"
    /\ \E k1, k2 \in Keys :
          /\ HasEntry(Parse(info.content).items, k1)
          /\ ~HasEntry(data[last.pid], k1)
          /\ HasEntry(data[last.pid], k2)

\* C9: persist(key) on a key whose backing file does not exist fails with
\* NotFound and changes neither the mirror, nor store_info, nor any file.
C9_PersistNotFound ==
    [][(last'.op = "persist" /\ ShardedPath(last'.key) \notin DOMAIN files)
       => (/\ last'.ret = "NotFound"
           /\ data' = data /\ info' = info /\ files' = files)]_vars

\* C9 witness: persist has failed on a key whose file was deleted out of band
\* (the mirror still lists it)
C9_Witness ==
    /\ last.op = "persist" /\ last.ret = "NotFound"
    /\ HasEntry(data[last.pid], last.key)

\* has_key(key) on an intact entry returns true and changes nothing
HasKeyFrame ==
    \A key \in Keys :
        (/\ last'.op = "has_key" /\ last'.key = key
         /\ Intact(files, key) /\ HasEntry(data[last'.pid], key))
        => (/\ last'.ret = "True"
            /\ data' = data /\ info' = info /\ files' = files)

\* C10 (as claimed): has_key on an intact entry returns true and changes
\* nothing, whereas get on the same entry changes its persist_until.
C10_HasKeyVersusGet ==
    [][/\ HasKeyFrame
       /\ \A key \in Keys :
            (/\ last'.op = "get" /\ last'.key = key
             /\ Intact(files, key) /\ HasEntry(data[last'.pid], key))
            => data'[last'.pid][KeyToString(key)].persistent
                   # data[last'.pid][KeyToString(key)].persistent]_vars

\* C10 (amended): has_key on an intact entry returns true and changes
\* nothing, whereas get on the same entry sets its persist_until to the
\* current second plus 600, which is never earlier than the value it had.
C10_HasKeyVersusGetAmended ==
    [][/\ HasKeyFrame
       /\ \A key \in Keys :
            (/\ last'.op = "get" /\ last'.key = key
             /\ Intact(files, key) /\ HasEntry(data[last'.pid], key))
            => /\ last'.ret = "Some"
               /\ data'[last'.pid][KeyToString(key)].persistent
                      = now + PERSISTENCY_DURATION
               /\ data'[last'.pid][KeyToString(key)].persistent
                      >= data[last'.pid][KeyToString(key)].persistent]_vars

\* C10 witness: has_key has returned true for an entry that a get at this
\* moment would extend
C10_Witness ==
    /\ last.op = "has_key" /\ last.ret = "True"
    /\ HasEntry(data[last.pid], last.key)
    /\ data[last.pid][KeyToString(last.key)].persistent < now + PERSISTENCY_DURATION

\* C11 (as claimed): when store(key, chunks) writes the backing file and
\* reports Ok, every write_all has succeeded: the file holds the whole chunk
\* sequence.
C11_ErrorsPropagate ==
    (last.op = "store" /\ last.ret = "Ok" /\ last.log # LogExists)
    => /\ ShardedPath(last.key) \in DOMAIN files
       /\ files[ShardedPath(last.key)].content = Concat(last.chunks)


\* C12 (as claimed): when store(key, chunks) has returned Ok the backing file
\* of key is read-only, and between operations every backing file that has a
\* mirror entry is read-only.
C12_ReadOnlyEnforcement ==
    \A p \in Procs :
        pc[p] = "live" =>
            /\ (last.op = "store" /\ last.pid = p /\ last.ret = "Ok")
                   => /\ ShardedPath(last.key) \in DOMAIN files
                      /\ files[ShardedPath(last.key)].readonly
            /\ \A key \in Keys :
                  (HasEntry(data[p], key) /\ ShardedPath(key) \in DOMAIN files)
                      => files[ShardedPath(key)].readonly


\* C13: right after a store that returned Ok, a get that returned a path or a
\* persist that returned Ok, the mirror holds an entry for the key whose
\* persist_until is the current second plus 600; and no step of a live
\* instance lowers the persist_until of an entry the mirror keeps.
C13_LifetimeExtension ==
    [][/\ (\/ last'.op = "store" /\ last'.ret = "Ok"
           \/ last'.op = "get" /\ last'.ret = "Some"
           \/ last'.op = "persist" /\ last'.ret = "Ok")
          => /\ HasEntry(data'[last'.pid], last'.key)
             /\ data'[last'.pid][KeyToString(last'.key)].persistent
                    = now' + PERSISTENCY_DURATION
       /\ now' >= now
       /\ \A p \in Procs :
            (pc[p] = "live" /\ pc'[p] = "live")
            => \A k \in DOMAIN data[p] \cap DOMAIN data'[p] :
                  data'[p][k].persistent >= data[p][k].persistent]_vars

\* C13 witness: a persist or a get has extended, a second later, an entry
\* that the store had created
C13_Witness ==
    /\ last.op \in {"get", "persist"} /\ last.ret \in {"Some", "Ok"}
    /\ now >= 1
    /\ HasEntry(data[last.pid], last.key)
    /\ data[last.pid][KeyToString(last.key)].persistent = now + PERSISTENCY_DURATION
    /\ ShardedPath(last.key) \in DOMAIN files
    /\ files[ShardedPath(last.key)].modified < now


\* C14 (as claimed): a FileStore::new call that finds the lock held leaves
\* the wait only with the lock in its hands, and the call that has waited and
\* got the lock returns an instance.
C14_LockAcquisition ==
    [][/\ \A p \in Procs :
            (pc[p] = "wait" /\ pc'[p] # "wait") => (pc'[p] = "read" /\ lock' = p)
       /\ (last.op = "lock_exclusive" /\ last'.op = "new" /\ last'.pid = last.pid)
              => last'.ret = "Ok"]_vars


C16_ShardedPathAgreement ==
    /\ \A key \in KeySpace :
          Exists(files, key_to_path(key)) =>
              /\ StoreFilePath(KeyToString(key)) = key_to_path(key)
              /\ \A key2 \in KeySpace \ {key} : key_to_path(key2) # key_to_path(key)
    /\ (last.op = "store" /\ last.ret = "Ok")
          => /\ Exists(files, StoreFilePath(KeyToString(last.key)))
             /\ Cardinality(DOMAIN files) = Cardinality(DOMAIN data[last.pid])
    /\ (last.op = "new" /\ last.ret = "Ok")
          => /\ DOMAIN data[last.pid] = DOMAIN Parse(info.content).items
             /\ Cardinality(DOMAIN files) = Cardinality(DOMAIN data[last.pid])

\* C16 witness: new has kept the entries of two keys whose files lie in the
\* same first-level directory and in different second-level directories
C16_Witness ==
    /\ last.op = "new" /\ last.ret = "Ok"
    /\ \E k1, k2 \in KeySpace :
          /\ k1[1] = k2[1] /\ k1[2] # k2[2] /\ k1[1] # k1[2]
          /\ HasEntry(data[last.pid], k1)
          /\ HasEntry(data[last.pid], k2)
          /\ Exists(files, key_to_path(k1))
          /\ Exists(files, key_to_path(k2))


\* C17 (as claimed): while an instance is live that has flushed an entry to
\* store_info, only the process that holds the lock changes store_info (its
\* existence or its content).
C17_OnlyLockHolderWrites ==
    [][(/\ info' # info
        /\ \E q \in Procs : pc[q] = "live" /\ DOMAIN data[q] # {})
       => lock = last'.pid]_vars


\* C18 (as claimed): after a crash inside a store, get, has_key, persist or
\* flush, FileStore::new succeeds, and every entry of the mirror it returns
\* has a backing file.
C18_CrashConsistency ==
    last.op = "new" =>
        /\ last.ret = "Ok"
        /\ \A key \in Keys :
              HasEntry(data[last.pid], key) => ShardedPath(key) \in DOMAIN files


\* the compilations among the executions of a DAG
Compilations(g) ==
    {i \in DOMAIN g.executions : g.executions[i].kind = "compilation"}

\* C19: after every execute on the one SourceFile, however many came before,
\* the DAG holds at most one compilation and the source file has been
\* provided exactly once (as the input of the compilation, or as the
\* executable itself); every execution execute has returned takes the same
\* executable as input; and execute has added nothing but the compilation to
\* the DAG: the execution it returns is not in it.
C19_PrepareOnce ==
    [][last'.op = "execute" =>
        /\ Cardinality(Compilations(dag')) <= 1
        /\ Len(dag'.provided) = 1
        /\ \A i \in Compilations(dag') :
              /\ dag'.executions[i].input = dag'.provided[1]
              /\ dag'.executions[i].output = source'.executable
        /\ Compilations(dag') = {} => dag'.provided[1] = source'.executable
        /\ source'.executable # NoFile
        /\ \A i \in DOMAIN execs' : execs'[i].input = source'.executable
        /\ \A i \in DOMAIN dag'.executions :
              i > Len(dag.executions) => dag'.executions[i].kind = "compilation"
        /\ \A i \in DOMAIN dag'.executions :
              dag'.executions[i] # execs'[Len(execs')]]_vars

\* C19 witness: a later execute on a compiled SourceFile has returned, the
\* caller having added an earlier execution to the DAG
C19_Witness ==
    /\ last.op = "execute"
    /\ source.need_compilation
    /\ Len(execs) >= 2
    /\ Cardinality(Compilations(dag)) = 1
    /\ Len(dag.executions) >= 2
    /\ Len(dag.provided) = 1
    /\ execs[1].input = execs[Len(execs)].input

====
